---- MODULE Spec2Model ----
(***************************************************************************)
(* Simple-RAG agent: the LangGraph workflow of src/agent/orchestrator.py   *)
(* (planner, repo_analyzer, retriever, reasoner, generator, reflector,     *)
(* evaluator), the state it threads through the nodes (src/agent/state.py) *)
(* and the scoring of a finished run (src/evaluation).                     *)
(*                                                                         *)
(* Texts are represented by the facts the code reads off them: a task by   *)
(* the keyword tests of the planner and of _detect_output_type, an output  *)
(* by the substring / regex / length tests of the metrics.                 *)
(***************************************************************************)
EXTENDS Integers, Sequences, FiniteSets, TLC

\* ------------------------------------------------------------------------
\* Bounds of the model
\* ------------------------------------------------------------------------
\* run_agent is called with max_iterations in 0 .. MaxIterationsArg
MaxIterationsArg == 2
\* a parsed reasoning response carries 0 .. MaxBackendSteps statements
MaxBackendSteps == 1
\* the repository holds MaxPyFiles *.py files (one more than the key samples)
MaxPyFiles == 101
\* a sequence of cache operations is at most MaxCacheOps long
MaxCacheOps == 5

\* ------------------------------------------------------------------------
\* Python values
\* ------------------------------------------------------------------------
None == "None"
EmptyStr == ""
\* an empty dict / list ({} or [])
EmptyColl == "empty"
\* a non-empty dict / list
Data == "data"
\* Python truthiness of an Optional[str] / Optional[Dict] / Optional[List]
Truthy(v) == v \notin {None, EmptyStr, EmptyColl}
\* Optional[Dict[str, float]] that is None
NoneDict == [None |-> TRUE]

Min(a, b) == IF a <= b THEN a ELSE b
Max(a, b) == IF a >= b THEN a ELSE b

\* ------------------------------------------------------------------------
\* Trail lists (reasoning_steps, reflection_notes, tool_usage).
\* An entry is [text, gen]; gen is the generation_count written into the
\* entry, NoTag when the entry carries none.  A list is a sequence of
\* segments: an entry, or Copy, which stands for a copy of everything that
\* precedes it in the same list (what operator.add produces when a node
\* returns the list it read plus its own entries).
\* ------------------------------------------------------------------------
NoTag == -1
Entry(text, gen) == [text |-> text, gen |-> gen]
Copy == [text |-> "<copy of the list so far>", gen |-> NoTag]

RECURSIVE ListLen(_)
\* len() of the list a segment sequence stands for
ListLen(L) ==
    IF L = <<>> THEN 0
    ELSE LET h == ListLen(SubSeq(L, 1, Len(L) - 1))
         IN  IF L[Len(L)] = Copy THEN 2 * h ELSE h + 1

RECURSIVE ListLast(_)
\* the last entry of a non-empty list
ListLast(L) ==
    IF L[Len(L)] = Copy THEN ListLast(SubSeq(L, 1, Len(L) - 1)) ELSE L[Len(L)]

RECURSIVE Expand(_)
\* the list itself, entry by entry
Expand(L) ==
    IF L = <<>> THEN <<>>
    ELSE LET h == Expand(SubSeq(L, 1, Len(L) - 1))
         IN  IF L[Len(L)] = Copy THEN h \o h ELSE Append(h, L[Len(L)])

IsPrefix(s, t) == Len(s) <= Len(t) /\ SubSeq(t, 1, Len(s)) = s

\* Annotated[List, operator.add]: the channel's new value is old + update.
\* Every node builds the list it returns from the list it read, so update
\* always starts with old.
Reduce(old, update) ==
    IF old = <<>> THEN update
    ELSE old \o <<Copy>> \o SubSeq(update, Len(old) + 1, Len(update))

\* keys of AgentState declared with a reducer
ReducerKeys == {"reasoning_steps", "reflection_notes", "tool_usage"}

\* ------------------------------------------------------------------------
\* Tasks: the strings run_agent is called with, and what the keyword tests
\* of planning_node, _generate_with_llm and _detect_output_type find in them
\* ------------------------------------------------------------------------
Tasks == {"Where is the cache used?",
          "Write a LinkedIn post about this project",
          "Explain how embeddings capture meaning in text"}

\* any(keyword in task_lower for keyword in code_keywords)
HasCodeKeyword(task) ==
    task \in {"Where is the cache used?", "Which file computes 2+2?"}

\* any(trivial_patterns): an arithmetic operator, at most three words and no
\* code keyword, or a greeting substring ('hi' occurs in "this")
IsTrivial(task) ==
    task \in {"Write a LinkedIn post about this project", "Which file computes 2+2?",
              "What is 2+2?"}

\* "linkedin" in task or "post" in task
MentionsPost(task) == task = "Write a LinkedIn post about this project"

\* any(kw in task for kw in code_keywords) of _detect_output_type
IsCodeQuestion(task) ==
    task \in {"Where is the cache used?", "Which file computes 2+2?"}

TaskTypes == {"analyze_repo", "answer_question", "general"}

\* ------------------------------------------------------------------------
\* The environment of a run
\* ------------------------------------------------------------------------
\* AZURE_OPENAI_API_KEY / AZURE_OPENAI_ENDPOINT: neither set, only the key
\* set (the client constructor then raises), both set
Credentials == {"none", "key_only", "full"}

\* previous_repo_data of run_agent: absent, a dict holding all six evidence
\* fields, or a dict holding only repo_structure
PreviousRepoData == {"absent", "full"}

\* ------------------------------------------------------------------------
\* The disk cache (PersistentCache) and the repository it is keyed on
\* ------------------------------------------------------------------------
\* no successful set so far
NoSet == [bundle |-> None]

\* the repository the runs analyse, and another one that shares the cache
\* directory
Root == "/repo"
OtherRoot == "/other"
Roots == {Root, OtherRoot}

\* the runs (processes) that use the cache directory at the same time
Runs == {"run A", "run B"}

\* a run that is not inside a set
NoHandle == [open |-> FALSE, key |-> <<>>, data |-> None, orphan |-> FALSE]

\* the cache directory is empty, every source file was last modified at
\* second 0 and the clock reads second 1
InitialCache ==
    [ now     |-> 1,                             \* the clock, in seconds
      mtimes  |-> [r \in Roots |-> [f \in 1..MaxPyFiles |-> 0]],
                                                 \* st_mtime of repo_path.rglob("*.py"), in order
      disk    |-> {},                            \* the files of cache_dir
      handles |-> [r \in Runs |-> NoHandle],     \* the cache file each run has open for writing
      arg     |-> None,                          \* the repo_path of the last get / set / clear
      ret     |-> None,                          \* what the last get / set returned
      log     |-> "none",                        \* the branch the last operation took
      stored  |-> NoSet,                         \* the last bundle a set wrote for Root, when, and the mtimes then
      ops     |-> 0 ]                            \* operations so far

\* the bundle an earlier run has collected and stored
EarlierBundle ==
    [ repo_structure |-> Data, code_files |-> Data, dependencies |-> Data,
      architecture |-> Data, code_symbols |-> Data, verification_outputs |-> Data ]

\* PersistentCache.__init__(ttl_hours=24)
ttl_hours == 24
\* self.ttl, in seconds
ttl == ttl_hours * 3600
\* py_files[:100]
sample_limit == 100

\* the files whose mtime enters the key
Sampled == 1..Min(sample_limit, MaxPyFiles)

\* variant: every file found is looked at
LatestMtimeOfAll(mtimes, n) ==
    LET sample == {mtimes[f] : f \in DOMAIN mtimes}
    IN  CHOOSE latest \in sample : \A m \in sample : m <= latest

\* max(f.stat().st_mtime for f in py_files[:n])
LatestMtime(mtimes, n) ==
    LET sample == {mtimes[f] : f \in 1..n}
    IN  CHOOSE latest \in sample : \A m \in sample : m <= latest

\* variant: only the first file found is looked at
_get_cache_key_first_file(c, repo_path) == <<repo_path, c.mtimes[repo_path][1]>>

\* _get_cache_key: sha256 of "{repo_path}:{latest_mtime}", represented by the
\* pair it hashes (the hash is taken to be free of collisions)
_get_cache_key(c, repo_path) ==
    <<repo_path, LatestMtime(c.mtimes[repo_path], Min(sample_limit, MaxPyFiles))>>

\* the evidence bundles a collection can produce
Bundles == {"bundle A", "bundle B"}

\* pickle.dump(data, f) that completed: the bytes of the file
pickle_dump(data) == [format |-> "pickle", data |-> data]
\* the bytes of a file that open(cache_file, 'wb') has truncated, or that a
\* dump which raised part-way has left
Truncated == [format |-> "truncated", data |-> None]
\* pickle.load(f) returns, rather than raises
Loadable(payload) == payload.format = "pickle"
\* pickle.load(f)
pickle_load(payload) == payload.data

\* the file named by key, if it exists
CacheFile(c, key) == {e \in c.disk : e.key = key}

\* variant: an entry is expired from the TTL on
CacheExpiredAtTtl(c, e) == c.now - e.mtime >= ttl

\* cache_age > self.ttl
CacheExpired(c, e) == c.now - e.mtime > ttl

\* variant: an expired entry is reported absent but not deleted
cache_get_keeps_expired(c, repo_path) ==
    LET found == CacheFile(c, _get_cache_key(c, repo_path))
    IN  IF found = {}
        THEN [c EXCEPT !.ret = None, !.log = "get_miss", !.arg = repo_path]
        ELSE LET e == CHOOSE e \in found : TRUE
             IN  IF CacheExpired(c, e)
                 THEN [c EXCEPT !.ret = None, !.log = "get_expired", !.arg = repo_path]
                 ELSE IF ~Loadable(e.payload)
                 THEN [c EXCEPT !.disk = @ \ {e}, !.ret = None, !.log = "get_corrupt", !.arg = repo_path]
                 ELSE [c EXCEPT !.ret = pickle_load(e.payload), !.log = "get_hit", !.arg = repo_path]

\* PersistentCache.get
cache_get(c, repo_path) ==
    LET found == CacheFile(c, _get_cache_key(c, repo_path))
    IN  IF found = {}
        THEN [c EXCEPT !.ret = None, !.log = "get_miss", !.arg = repo_path]
        ELSE LET e == CHOOSE e \in found : TRUE
             IN  IF CacheExpired(c, e)
                 THEN [c EXCEPT !.disk = @ \ {e}, !.ret = None, !.log = "get_expired", !.arg = repo_path]
                 ELSE IF ~Loadable(e.payload)
                 THEN [c EXCEPT !.disk = @ \ {e}, !.ret = None, !.log = "get_corrupt", !.arg = repo_path]
                 ELSE [c EXCEPT !.ret = pickle_load(e.payload), !.log = "get_hit", !.arg = repo_path]

\* what the file system does to a set: the file is written, open() raises,
\* or pickle.dump raises after open() has truncated the file
SetOutcomes == {"written", "open_fails", "dump_fails"}

\* variant: a set keeps one entry per repository and removes the older ones
cache_set_one_per_root(c, repo_path, data, outcome) ==
    LET key == _get_cache_key(c, repo_path)
        older == {e \in c.disk : e.key[1] = repo_path}
    IN  CASE outcome = "written" ->
                [c EXCEPT !.disk = (@ \ older) \cup
                                      {[key |-> key, mtime |-> c.now, payload |-> pickle_dump(data)]},
                          !.ret = "True", !.log = "set_written", !.arg = repo_path]
          [] outcome = "open_fails" ->
                [c EXCEPT !.ret = "False", !.log = "set_failed", !.arg = repo_path]
          [] outcome = "dump_fails" ->
                [c EXCEPT !.disk = (@ \ older) \cup
                                      {[key |-> key, mtime |-> c.now, payload |-> Truncated]},
                          !.ret = "False", !.log = "set_failed", !.arg = repo_path]

\* PersistentCache.set, run without another operation in between
cache_set(c, repo_path, data, outcome) ==
    LET key == _get_cache_key(c, repo_path)
    IN  CASE outcome = "written" ->
                [c EXCEPT !.disk = (@ \ CacheFile(c, key)) \cup
                                      {[key |-> key, mtime |-> c.now, payload |-> pickle_dump(data)]},
                          !.ret = "True", !.log = "set_written", !.arg = repo_path]
          [] outcome = "open_fails" ->
                [c EXCEPT !.ret = "False", !.log = "set_failed", !.arg = repo_path]
          [] outcome = "dump_fails" ->
                [c EXCEPT !.disk = (@ \ CacheFile(c, key)) \cup
                                      {[key |-> key, mtime |-> c.now, payload |-> Truncated]},
                          !.ret = "False", !.log = "set_failed", !.arg = repo_path]

\* PersistentCache.clear: the file of repo_path's key, or with None every file
cache_clear(c, repo_path) ==
    IF repo_path # None
    THEN [c EXCEPT !.disk = @ \ CacheFile(c, _get_cache_key(c, repo_path)),
                   !.ret = None, !.log = "clear_one", !.arg = repo_path]
    ELSE [c EXCEPT !.disk = {}, !.ret = None, !.log = "clear_all", !.arg = repo_path]

VARIABLES
    cache,     \* the disk cache, the source files' mtimes and the clock
    args,      \* the arguments of run_agent
    creds,     \* the backend credentials in the environment
    store,     \* what the knowledge store does for the task of this run
    pc,        \* the node the graph runs next, "END", or "returned"
    st,        \* the graph state (AgentState)
    plan,      \* skip_reasoning / skip_reflection returned by the last planning_node
    calls,     \* completion-backend calls made by the stage that ran last
    trace,     \* the stages executed so far, in order
    result     \* the state run_agent returned

vars == <<cache, args, creds, store, pc, st, plan, calls, trace, result>>

\* create_initial_state(task, task_type, max_iterations)
create_initial_state(task, task_type, max_iterations) ==
    [ task                 |-> task,
      task_type            |-> task_type,
      repo_structure       |-> None,
      code_files           |-> None,
      dependencies         |-> None,
      architecture         |-> None,
      code_symbols         |-> None,
      verification_outputs |-> None,
      reasoning_steps      |-> <<>>,
      reflection_notes     |-> <<>>,
      reflection_assessment |-> None,
      tool_usage           |-> <<>>,
      retrieved_context    |-> None,
      final_output         |-> None,
      evaluation_scores    |-> NoneDict,
      next_action          |-> "plan",
      iteration_count      |-> 0,
      generation_count     |-> 0,
      max_iterations       |-> max_iterations,
      is_complete          |-> FALSE ]

\* previous_repo_data.get(key, {}) / .get(key, [])
PreviousGet(previous, key) ==
    CASE previous = "full" -> Data
      [] previous = "structure_only" /\ key = "repo_structure" -> Data
      [] OTHER -> EmptyColl

\* run_agent up to the call of graph.ainvoke: the initial state, with the
\* previous repository data injected when it is truthy
InitialState(a) ==
    LET s == create_initial_state(a.task, a.task_type, a.max_iterations)
    IN  IF a.previous_repo_data # "absent"
        THEN [s EXCEPT !.repo_structure = PreviousGet(a.previous_repo_data, "repo_structure"),
                       !.dependencies = PreviousGet(a.previous_repo_data, "dependencies"),
                       !.architecture = PreviousGet(a.previous_repo_data, "architecture"),
                       !.code_files = PreviousGet(a.previous_repo_data, "code_files"),
                       !.code_symbols = PreviousGet(a.previous_repo_data, "code_symbols"),
                       !.verification_outputs = PreviousGet(a.previous_repo_data, "verification_outputs")]
        ELSE s

\* state.get(key, default) on the graph state: keys that AgentState does not
\* declare are not channels of the graph and never reach a node
StateGet(state, key, default) ==
    IF key \in DOMAIN state THEN state[key] ELSE default

\* The graph applies a node's returned dict: declared keys only, reducer keys
\* through their reducer, the others overwritten
ApplyUpdates(state, ret) ==
    [k \in DOMAIN state |->
        IF k \in DOMAIN ret
        THEN IF k \in ReducerKeys THEN Reduce(state[k], ret[k]) ELSE ret[k]
        ELSE state[k]]

Init ==
    /\ args \in [task : Tasks, task_type : TaskTypes,
                 max_iterations : 0..MaxIterationsArg,
                 previous_repo_data : PreviousRepoData]
    /\ creds \in Credentials
    /\ cache = InitialCache
    /\ store = "not_queried"
    /\ pc = "planner"
    /\ st = InitialState(args)
    /\ plan = [skip_reasoning |-> FALSE, skip_reflection |-> FALSE]
    /\ calls = 0
    /\ trace = <<>>
    /\ result = NoneDict

\* ------------------------------------------------------------------------
\* The graph: one step runs a node, applies what it returned and follows the
\* edge out of the node
\* ------------------------------------------------------------------------
\* route_after_planning
route_after_planning(state) ==
    IF state.iteration_count > state.max_iterations THEN "end"
    ELSE IF StateGet(state, "next_action", "reason") \in {"analyze", "retrieve", "reason"}
         THEN StateGet(state, "next_action", "reason")
         ELSE "end"

\* route_after_reflection
route_after_reflection(state) ==
    IF StateGet(state, "next_action", "end") \in {"continue", "retry", "end"}
    THEN StateGet(state, "next_action", "end")
    ELSE "end"

\* variant: the "end" edge of the planner leads past the evaluator
PlannerEdgesPastEvaluator(route) ==
    CASE route = "analyze" -> "repo_analyzer"
      [] route = "retrieve" -> "retriever"
      [] route = "reason" -> "reasoner"
      [] route = "end" -> "END"

\* the conditional edges out of the planner
PlannerEdges(route) ==
    CASE route = "analyze" -> "repo_analyzer"
      [] route = "retrieve" -> "retriever"
      [] route = "reason" -> "reasoner"
      [] route = "end" -> "evaluator"

\* the conditional edges out of the reflector
ReflectorEdges(route) ==
    CASE route = "continue" -> "planner"
      [] route = "retry" -> "generator"
      [] route = "end" -> "evaluator"

\* variant: the edge out of the repo analyzer follows next_action
NextNodeByNextAction(node, state) ==
    CASE node = "planner" -> PlannerEdges(route_after_planning(state))
      [] node = "repo_analyzer" ->
            IF state.next_action = "generate" THEN "generator" ELSE "reasoner"
      [] node = "retriever" -> "reasoner"
      [] node = "reasoner" -> "generator"
      [] node = "generator" -> "reflector"
      [] node = "reflector" -> ReflectorEdges(route_after_reflection(state))
      [] node = "evaluator" -> "END"

\* create_agent_graph: the node that follows `node` once the graph state is `state`
NextNode(node, state) ==
    CASE node = "planner" -> PlannerEdges(route_after_planning(state))
      [] node = "repo_analyzer" -> "reasoner"
      [] node = "retriever" -> "reasoner"
      [] node = "reasoner" -> "generator"
      [] node = "generator" -> "reflector"
      [] node = "reflector" -> ReflectorEdges(route_after_reflection(state))
      [] node = "evaluator" -> "END"

\* the failure description run_agent writes into final_output
ErrorApology == "I apologize, but I encountered an error while processing your request. ..."

\* variant: the except branch leaves is_complete and the scores untouched
FallbackStateUnscored(initial_state) ==
    [initial_state EXCEPT !.final_output = ErrorApology]

\* run_agent, except branch: the fallback state built from initial_state
FallbackState(initial_state) ==
    [initial_state EXCEPT
        !.final_output = ErrorApology,
        !.is_complete = FALSE,
        !.evaluation_scores =
            [ task_completion    |-> 0,
              reasoning_quality  |-> 0,
              tool_effectiveness |-> 0,
              reflection_quality |-> 0,
              output_quality     |-> 0,
              overall_score      |-> [num |-> 0, den |-> 1] ]]

\* a node returned `ret` after `n` completion-backend calls
NodeReturns(node, ret, n) ==
    /\ st' = ApplyUpdates(st, ret)
    /\ pc' = NextNode(node, st')
    /\ calls' = n
    /\ trace' = Append(trace, node)
    /\ result' = result

\* a node raised: graph.ainvoke raises and run_agent returns the fallback state
NodeRaises(node, n) ==
    /\ result' = FallbackState(InitialState(args))
    /\ pc' = "returned"
    /\ calls' = n
    /\ trace' = Append(trace, node)
    /\ st' = st

\* ------------------------------------------------------------------------
\* planner
\* ------------------------------------------------------------------------
\* variant: the trivial test is made before the code-keyword test
PlannerDecisionTrivialFirst(state) ==
    LET task_type == state.task_type
        task == state.task
        has_repo_data == Truthy(state.repo_structure) \/ Truthy(state.code_files)
    IN  CASE task_type = "analyze_repo" ->
                [next_action |-> "analyze", plan_note |-> "Task requires repository analysis",
                 skip_reasoning |-> FALSE, skip_reflection |-> FALSE]
          [] task_type = "answer_question" ->
                [next_action |-> "retrieve", plan_note |-> "Task requires knowledge base retrieval",
                 skip_reasoning |-> FALSE, skip_reflection |-> TRUE]
          [] task_type = "generate_content" /\ has_repo_data ->
                [next_action |-> "reason",
                 plan_note |-> "Task requires content generation using cached repo data",
                 skip_reasoning |-> FALSE, skip_reflection |-> TRUE]
          [] task_type = "generate_content" /\ ~has_repo_data ->
                [next_action |-> "analyze",
                 plan_note |-> "Task requires repo analysis before content generation",
                 skip_reasoning |-> FALSE, skip_reflection |-> TRUE]
          [] OTHER ->
                IF IsTrivial(task)
                THEN [next_action |-> "reason",
                      plan_note |-> "Simple query detected - direct response",
                      skip_reasoning |-> TRUE, skip_reflection |-> TRUE]
                ELSE IF HasCodeKeyword(task) /\ ~has_repo_data
                THEN [next_action |-> "analyze",
                      plan_note |-> "Code-specific question detected - analyzing repository",
                      skip_reasoning |-> FALSE, skip_reflection |-> TRUE]
                ELSE [next_action |-> "reason",
                      plan_note |-> "Task requires direct reasoning",
                      skip_reasoning |-> FALSE, skip_reflection |-> TRUE]

\* planning_node: the decision (next_action, plan_note, skip flags)
PlannerDecision(state) ==
    LET task_type == state.task_type
        task == state.task
        has_repo_data == Truthy(state.repo_structure) \/ Truthy(state.code_files)
    IN  CASE task_type = "analyze_repo" ->
                [next_action |-> "analyze", plan_note |-> "Task requires repository analysis",
                 skip_reasoning |-> FALSE, skip_reflection |-> FALSE]
          [] task_type = "answer_question" ->
                [next_action |-> "retrieve", plan_note |-> "Task requires knowledge base retrieval",
                 skip_reasoning |-> FALSE, skip_reflection |-> TRUE]
          [] task_type = "generate_content" /\ has_repo_data ->
                [next_action |-> "reason",
                 plan_note |-> "Task requires content generation using cached repo data",
                 skip_reasoning |-> FALSE, skip_reflection |-> TRUE]
          [] task_type = "generate_content" /\ ~has_repo_data ->
                [next_action |-> "analyze",
                 plan_note |-> "Task requires repo analysis before content generation",
                 skip_reasoning |-> FALSE, skip_reflection |-> TRUE]
          [] OTHER ->
                IF HasCodeKeyword(task) /\ ~has_repo_data
                THEN [next_action |-> "analyze",
                      plan_note |-> "Code-specific question detected - analyzing repository",
                      skip_reasoning |-> FALSE, skip_reflection |-> TRUE]
                ELSE IF IsTrivial(task)
                THEN [next_action |-> "reason",
                      plan_note |-> "Simple query detected - direct response",
                      skip_reasoning |-> TRUE, skip_reflection |-> TRUE]
                ELSE [next_action |-> "reason",
                      plan_note |-> "Task requires direct reasoning",
                      skip_reasoning |-> FALSE, skip_reflection |-> TRUE]

\* planning_node: the dict it returns
planning_node(state) ==
    LET d == PlannerDecision(state)
    IN  [skip_reasoning |-> d.skip_reasoning, skip_reflection |-> d.skip_reflection]
        @@ [state EXCEPT
              !.next_action = d.next_action,
              !.reasoning_steps = Append(@, Entry("Planning: " \o d.plan_note, NoTag)),
              !.iteration_count = @ + 1]

Planner ==
    /\ pc = "planner"
    /\ LET ret == planning_node(st)
       IN  /\ NodeReturns("planner", ret, 0)
           /\ plan' = [skip_reasoning |-> ret.skip_reasoning,
                       skip_reflection |-> ret.skip_reflection]
    /\ UNCHANGED <<cache, args, creds, store>>

\* ------------------------------------------------------------------------
\* The completion backend, as seen by the retry loops of the nodes.
\* A script is what the backend answers to the successive calls of one
\* stage: some rate-limit errors (429), then a final answer.
\* ------------------------------------------------------------------------
RateLimited == [kind |-> "rate_limited"]
\* any exception whose text does not contain '429'
BackendError == [kind |-> "error"]
Content(c) == [kind |-> "content", content |-> c]

RECURSIVE RateLimits(_)
RateLimits(n) == IF n = 0 THEN <<>> ELSE Append(RateLimits(n - 1), RateLimited)

\* the scripts a loop of max_retries attempts can tell apart
Scripts(max_retries, finals) ==
    { RateLimits(r) \o <<f>> : r \in 0..(max_retries - 1), f \in finals }
        \cup { RateLimits(max_retries) }

RECURSIVE LastAttempt(_, _, _)
\* for attempt in range(max_retries): the attempt at which the loop is left
\* ('429' in error_str and attempt < max_retries - 1 -> continue)
LastAttempt(script, attempt, max_retries) ==
    IF script[attempt + 1] = RateLimited /\ attempt < max_retries - 1
    THEN LastAttempt(script, attempt + 1, max_retries)
    ELSE attempt

\* dict.get(key, default) on a parsed JSON object
DictGet(d, key, default) == IF key \in DOMAIN d THEN d[key] ELSE default

\* ------------------------------------------------------------------------
\* repo_analyzer
\* ------------------------------------------------------------------------
\* the six fields of the evidence bundle
EvidenceFields == {"repo_structure", "code_files", "dependencies", "architecture",
                   "code_symbols", "verification_outputs"}

\* verification_outputs when a verification command raised or timed out: a
\* dict of placeholder strings ("ERROR: ...", "Coverage timed out - skipping
\* ...", "Coverage skipped: ...", "Unknown")
Placeholders == "placeholders"

\* what the repository does to a fresh analysis: the five repository tools
\* return or one of them raises, the verification commands succeed or fail,
\* and the cache file is written or not
AnalyzerEnvs ==
    [tools : {"return", "raise"}, verification : {"ok", "fails"}, set : SetOutcomes]

\* bool(state.get("code_symbols") and state.get("verification_outputs"))
has_session_cache(state) ==
    Truthy(state.code_symbols) /\ Truthy(state.verification_outputs)

\* repo_analyzer_node, session-cache branch
AnalyzerSessionCache(state) == state

\* repo_analyzer_node, disk-cache branch
AnalyzerDiskCache(state, cached_data) ==
    [state EXCEPT !.repo_structure = cached_data.repo_structure,
                  !.code_files = cached_data.code_files,
                  !.dependencies = cached_data.dependencies,
                  !.architecture = cached_data.architecture,
                  !.code_symbols = cached_data.code_symbols,
                  !.verification_outputs = cached_data.verification_outputs,
                  !.next_action = "generate"]

\* repo_analyzer_node, fresh analysis whose repository tools returned
AnalyzerFresh(state, verification) ==
    [state EXCEPT !.repo_structure = Data, !.code_files = Data,
                  !.dependencies = Data, !.architecture = Data,
                  !.code_symbols = Data,
                  !.verification_outputs =
                      IF verification = "ok" THEN Data ELSE Placeholders,
                  !.reasoning_steps = @ \o
                      << Entry("Repository analysis: Found top-level items", NoTag),
                         Entry("Repository analysis: Analyzed source files", NoTag),
                         Entry("Repository analysis: Identified dependencies", NoTag),
                         Entry("Repository analysis: Mapped modules", NoTag),
                         Entry("Repository analysis: Extracted code symbols", NoTag) >>,
                  !.tool_usage = Append(@, Entry("repository_analysis", NoTag))]

\* cache_data: the six fields of new_state
cache_data(new_state) == [field \in EvidenceFields |-> new_state[field]]

\* variant: a verification command that fails aborts the analysis
repo_analyzer_node_verification_raises(state, c, env) ==
    IF has_session_cache(state)
    THEN [raises |-> FALSE, state |-> AnalyzerSessionCache(state), cache |-> c]
    ELSE LET looked == cache_get(c, Root)
         IN  IF looked.log = "get_hit"
             THEN [raises |-> FALSE, state |-> AnalyzerDiskCache(state, looked.ret),
                   cache |-> looked]
             ELSE IF env.tools = "raise" \/ env.verification = "fails"
             THEN [raises |-> TRUE, state |-> state, cache |-> looked]
             ELSE LET new_state == AnalyzerFresh(state, env.verification)
                  IN  [raises |-> FALSE, state |-> new_state,
                       cache |-> cache_set(looked, Root, cache_data(new_state), env.set)]

\* repo_analyzer_node: whether it raises, the state it returns and what it
\* has done to the disk cache. A bundle loaded from the cache is the dict a
\* set has written, which is not empty, so `if cached_data:` is the hit.
repo_analyzer_node(state, c, env) ==
    IF has_session_cache(state)
    THEN [raises |-> FALSE, state |-> AnalyzerSessionCache(state), cache |-> c]
    ELSE LET looked == cache_get(c, Root)
         IN  IF looked.log = "get_hit"
             THEN [raises |-> FALSE, state |-> AnalyzerDiskCache(state, looked.ret),
                   cache |-> looked]
             ELSE IF env.tools = "raise"
             THEN [raises |-> TRUE, state |-> state, cache |-> looked]
             ELSE LET new_state == AnalyzerFresh(state, env.verification)
                  IN  [raises |-> FALSE, state |-> new_state,
                       cache |-> cache_set(looked, Root, cache_data(new_state), env.set)]

\* Another process that shares the cache directory has analysed the same
\* repository and stores its bundle. Taken only where the run can see it:
\* just before an analysis that is going to read an empty cache directory.
OtherRunStores ==
    /\ pc = "repo_analyzer"
    /\ ~has_session_cache(st)
    /\ cache.disk = {}
    /\ cache' = cache_set(cache, Root, EarlierBundle, "written")
    /\ UNCHANGED <<args, creds, store, pc, st, plan, calls, trace, result>>

RepoAnalyzer ==
    /\ pc = "repo_analyzer"
    /\ \E env \in AnalyzerEnvs :
          LET done == repo_analyzer_node(st, cache, env)
          IN  /\ IF done.raises
                 THEN NodeRaises("repo_analyzer", 0)
                 ELSE NodeReturns("repo_analyzer", done.state, 0)
              /\ cache' = done.cache
    /\ UNCHANGED <<args, creds, store, plan>>

\* ------------------------------------------------------------------------
\* retriever
\* ------------------------------------------------------------------------
\* variant: the except branch leaves retrieved_context as it was
retrieval_node_error_unset(state, outcome) ==
    CASE outcome = "empty_store" ->
            [state EXCEPT !.retrieved_context = EmptyColl,
                          !.reasoning_steps = Append(@,
                              Entry("Retrieval: Knowledge base is empty - no context retrieved", NoTag)),
                          !.next_action = "reason"]
      [] outcome = "chunks" ->
            [state EXCEPT !.retrieved_context = Data,
                          !.tool_usage = Append(@, Entry("chromadb_retrieval", NoTag)),
                          !.reasoning_steps = Append(@,
                              Entry("Retrieval: Found relevant chunks from knowledge base", NoTag)),
                          !.next_action = "reason"]
      [] outcome = "no_chunks" ->
            [state EXCEPT !.retrieved_context = EmptyColl,
                          !.reasoning_steps = Append(@,
                              Entry("Retrieval: No relevant context found in knowledge base", NoTag)),
                          !.next_action = "reason"]
      [] outcome = "store_error" ->
            [state EXCEPT !.reasoning_steps = Append(@,
                              Entry("Retrieval: Failed to retrieve context", NoTag)),
                          !.next_action = "reason"]

\* outcome: what the knowledge store does
retrieval_node(state, outcome) ==
    CASE outcome = "empty_store" ->
            [state EXCEPT !.retrieved_context = EmptyColl,
                          !.reasoning_steps = Append(@,
                              Entry("Retrieval: Knowledge base is empty - no context retrieved", NoTag)),
                          !.next_action = "reason"]
      [] outcome = "chunks" ->
            [state EXCEPT !.retrieved_context = Data,
                          !.tool_usage = Append(@, Entry("chromadb_retrieval", NoTag)),
                          !.reasoning_steps = Append(@,
                              Entry("Retrieval: Found relevant chunks from knowledge base", NoTag)),
                          !.next_action = "reason"]
      [] outcome = "no_chunks" ->
            [state EXCEPT !.retrieved_context = EmptyColl,
                          !.reasoning_steps = Append(@,
                              Entry("Retrieval: No relevant context found in knowledge base", NoTag)),
                          !.next_action = "reason"]
      [] outcome = "store_error" ->
            [state EXCEPT !.retrieved_context = EmptyColl,
                          !.reasoning_steps = Append(@,
                              Entry("Retrieval: Failed to retrieve context", NoTag)),
                          !.next_action = "reason"]

StoreOutcomes == {"empty_store", "chunks", "no_chunks", "store_error"}

\* the store is not written during a run: the same query meets the same store
Retriever ==
    /\ pc = "retriever"
    /\ \E outcome \in StoreOutcomes :
          /\ store \in {"not_queried", outcome}
          /\ store' = outcome
          /\ NodeReturns("retriever", retrieval_node(st, outcome), 0)
    /\ UNCHANGED <<cache, args, creds, plan>>

\* ------------------------------------------------------------------------
\* reasoner
\* ------------------------------------------------------------------------
reasoner_max_retries == 3

RECURSIVE BackendSteps(_)
\* [f"Reasoning: {step}" for step in steps]
BackendSteps(n) ==
    IF n = 0 THEN <<>> ELSE Append(BackendSteps(n - 1), Entry("Reasoning: step", NoTag))

FallbackSteps ==
    << Entry("Reasoning: Analyzing available information", NoTag),
       Entry("Reasoning: Formulating response", NoTag) >>

\* what the backend can answer to the reasoning prompt: an error, a JSON
\* object with n statements, a JSON object whose reasoning_steps cannot be
\* iterated, text that is not JSON
ReasonerFinals ==
    {BackendError,
     Content([parse |-> "not_json", steps |-> 1]),
     Content([parse |-> "not_iterable", steps |-> 0])}
        \cup { Content([parse |-> "json", steps |-> n]) : n \in 0..MaxBackendSteps }

\* reasoning_node with credentials: the retry loop
ReasonerLoop(state, script) ==
    LET answer == script[LastAttempt(script, 0, reasoner_max_retries) + 1]
    IN  IF answer.kind = "content" /\ answer.content.parse # "not_iterable"
        THEN [state EXCEPT
                !.reasoning_steps = @ \o BackendSteps(answer.content.steps),
                !.next_action = "generate"]
        ELSE [state EXCEPT !.reasoning_steps = @ \o FallbackSteps,
                           !.next_action = "generate"]

\* reasoning_node
reasoning_node(state, has_api_key, script) ==
    IF StateGet(state, "skip_reasoning", FALSE)
    THEN [state EXCEPT
            !.reasoning_steps = Append(@,
                Entry("Reasoning: Direct response (no complex reasoning needed)", NoTag)),
            !.next_action = "generate"]
    ELSE IF ~has_api_key
    THEN [state EXCEPT !.reasoning_steps = @ \o FallbackSteps,
                       !.next_action = "generate"]
    ELSE ReasonerLoop(state, script)

Reasoner ==
    /\ pc = "reasoner"
    /\ IF StateGet(st, "skip_reasoning", FALSE) \/ creds = "none"
       THEN NodeReturns("reasoner", reasoning_node(st, FALSE, <<>>), 0)
       ELSE IF creds = "key_only"
       THEN NodeRaises("reasoner", 0)
       ELSE \E script \in Scripts(reasoner_max_retries, ReasonerFinals) :
               NodeReturns("reasoner", reasoning_node(st, TRUE, script),
                           LastAttempt(script, 0, reasoner_max_retries) + 1)
    /\ UNCHANGED <<cache, args, creds, store, plan>>

\* ------------------------------------------------------------------------
\* generator
\* ------------------------------------------------------------------------
generator_max_retries == 3

\* Output texts.  What the backend writes is free; two texts stand for it:
\* RichText carries every marker the metrics look for, VagueText none of
\* them and all seven hedging terms.
RichText == "# Overview ... [evidence: ...] x15 ... ### Self-Reflection Impact: ..."
VagueText == "it likely works and suggests that it appears to be fine, may probably do what it seems to do, possibly"
\* f"Response to: {task}\n\nI apologize, but I need Azure OpenAI credentials ..."
CredentialsFallback == "Response to: {task} I apologize, but I need Azure OpenAI credentials ..."
\* f"I apologize, but I encountered an error generating a response. Error: {str(e)}"
ErrorFallback == "I apologize, but I encountered an error generating a response. Error: Connection error."
\* _generate_repository_analysis_template(state)
TemplateReport == "# Repository Analysis Report ..."

\* message.content of a completion: a text, the empty string or None
GeneratorFinals ==
    {BackendError} \cup { Content(c) : c \in {RichText, VagueText, EmptyStr, None} }

\* _generate_with_llm
_generate_with_llm(state, has_api_key, script) ==
    IF ~has_api_key
    THEN IF state.task_type = "analyze_repo" THEN TemplateReport ELSE CredentialsFallback
    ELSE LET answer == script[LastAttempt(script, 0, generator_max_retries) + 1]
         IN  IF answer.kind = "content" THEN answer.content
             ELSE IF state.task_type = "analyze_repo" THEN TemplateReport
             ELSE ErrorFallback

\* variant: only a generation by the backend is counted
generation_node_backend_counted(state, has_api_key, script) ==
    [state EXCEPT
        !.generation_count =
            StateGet(state, "generation_count", 0) + (IF has_api_key THEN 1 ELSE 0),
        !.final_output = _generate_with_llm(state, has_api_key, script),
        !.is_complete = TRUE]

\* generation_node
generation_node(state, has_api_key, script) ==
    [state EXCEPT
        !.generation_count = StateGet(state, "generation_count", 0) + 1,
        !.final_output = _generate_with_llm(state, has_api_key, script),
        !.is_complete = TRUE]

Generator ==
    /\ pc = "generator"
    /\ CASE creds = "none" ->
               NodeReturns("generator", generation_node(st, FALSE, <<>>), 0)
         [] creds = "key_only" ->
               \* AsyncAzureOpenAI(...) raises without an endpoint
               NodeRaises("generator", 0)
         [] creds = "full" ->
               \E script \in Scripts(generator_max_retries, GeneratorFinals) :
                  LET n == LastAttempt(script, 0, generator_max_retries) + 1
                  IN  IF _generate_with_llm(st, TRUE, script) = None
                      THEN \* len(output) raises TypeError
                           NodeRaises("generator", n)
                      ELSE NodeReturns("generator", generation_node(st, TRUE, script), n)
    /\ UNCHANGED <<cache, args, creds, store, plan>>

\* ------------------------------------------------------------------------
\* reflector
\* ------------------------------------------------------------------------
reflector_max_retries == 3
max_generations == 3

Assessments == {"good", "needs_improvement", "needs_more_data", "excellent"}
ResponseActions == {"restart"}
ReflectionKeys == {"assessment", "can_improve_without_data", "next_action"}

\* the JSON objects the backend can answer with: all keys, all keys but
\* can_improve_without_data, or no key at all
ReflectionDicts ==
    { [k \in K |-> full[k]] :
        K \in {ReflectionKeys, ReflectionKeys \ {"can_improve_without_data"}, {}},
        full \in [assessment : Assessments,
                  can_improve_without_data : BOOLEAN,
                  next_action : ResponseActions] }

\* what the backend can answer to the reflection prompt
ReflectorFinals ==
    {BackendError,
     Content([parse |-> "not_json"]),
     Content([parse |-> "not_dict"]),
     Content([parse |-> "null"])}
        \cup { Content([parse |-> "dict", dict |-> d]) : d \in ReflectionDicts }

\* variant: the default branch keeps the assessment and asks for more data
ReflectionVerdictDefaultContinues(reflection, generation_count) ==
    LET assessment0 == DictGet(reflection, "assessment", "good")
        capped == generation_count >= max_generations
        assessment1 == IF capped THEN "good" ELSE assessment0
        can_improve == DictGet(reflection, "can_improve_without_data", TRUE)
    IN  IF assessment1 = "needs_more_data" /\ ~can_improve
        THEN [assessment |-> assessment1, next_action |-> "continue"]
        ELSE IF assessment1 = "needs_improvement" /\ can_improve
        THEN [assessment |-> assessment1, next_action |-> "retry"]
        ELSE IF assessment1 = "good"
        THEN [assessment |-> assessment1, next_action |-> "end"]
        ELSE [assessment |-> assessment1, next_action |-> "continue"]

\* reflection_node, the verdict for a parsed JSON object: ceiling, then routing
ReflectionVerdict(reflection, generation_count) ==
    LET assessment0 == DictGet(reflection, "assessment", "good")
        next_action0 == DictGet(reflection, "next_action", "end")
        capped == generation_count >= max_generations
        assessment1 == IF capped THEN "good" ELSE assessment0
        can_improve == DictGet(reflection, "can_improve_without_data", TRUE)
    IN  IF assessment1 = "needs_more_data" /\ ~can_improve
        THEN [assessment |-> assessment1, next_action |-> "continue"]
        ELSE IF assessment1 = "needs_improvement" /\ can_improve
        THEN [assessment |-> assessment1, next_action |-> "retry"]
        ELSE IF assessment1 = "good"
        THEN [assessment |-> assessment1, next_action |-> "end"]
        ELSE [assessment |-> "good", next_action |-> "end"]

\* reflection_node, no API key or no output
ReflectionNoKeyOrOutput(state) ==
    [state EXCEPT
        !.reflection_notes = Append(StateGet(state, "reflection_notes", <<>>),
            Entry("Reflection: Output appears complete, proceeding to evaluation", NoTag)),
        !.reflection_assessment = "good",
        !.next_action = "end"]

\* reflection_node, outer except (the client could not be set up)
ReflectionSetupFailed(state) ==
    [state EXCEPT
        !.reflection_notes = Append(StateGet(state, "reflection_notes", <<>>),
            Entry("Reflection: Output appears complete (error fallback)", NoTag)),
        !.reflection_assessment = "good",
        !.next_action = "end"]

\* variant: a failed reflection asks for another generation
ReflectionFailedRetries(state) ==
    [state EXCEPT
        !.reflection_notes = Append(StateGet(state, "reflection_notes", <<>>),
            Entry("Reflection (gen N): Output accepted (reflection failed)",
                  StateGet(state, "generation_count", 0))),
        !.reflection_assessment = "good",
        !.next_action = "retry"]

\* reflection_node, `if not reflection_success`
ReflectionFailed(state) ==
    [state EXCEPT
        !.reflection_notes = Append(StateGet(state, "reflection_notes", <<>>),
            Entry("Reflection (gen N): Output accepted (reflection failed)",
                  StateGet(state, "generation_count", 0))),
        !.reflection_assessment = "good",
        !.next_action = "end"]

\* variant: the loop never sees the ceiling reached
ReflectionLoopUncapped(state, script) ==
    LET answer == script[LastAttempt(script, 0, reflector_max_retries) + 1]
        generation_count == StateGet(state, "generation_count", 0)
    IN  IF answer.kind = "content" /\ answer.content.parse = "dict"
        THEN LET v == ReflectionVerdict(answer.content.dict, 0)
             IN  [state EXCEPT
                    !.reflection_notes = Append(StateGet(state, "reflection_notes", <<>>),
                        Entry("Reflection (gen N): " \o v.assessment, generation_count)),
                    !.reflection_assessment = v.assessment,
                    !.next_action = v.next_action]
        ELSE ReflectionFailed(state)

\* reflection_node, the retry loop
ReflectionLoop(state, script) ==
    LET answer == script[LastAttempt(script, 0, reflector_max_retries) + 1]
        generation_count == StateGet(state, "generation_count", 0)
    IN  IF answer.kind = "content" /\ answer.content.parse = "dict"
        THEN LET v == ReflectionVerdict(answer.content.dict, generation_count)
             IN  [state EXCEPT
                    !.reflection_notes = Append(StateGet(state, "reflection_notes", <<>>),
                        Entry("Reflection (gen N): " \o v.assessment, generation_count)),
                    !.reflection_assessment = v.assessment,
                    !.next_action = v.next_action]
        ELSE \* the call failed, or `reflection` is unbound / has no .get
             ReflectionFailed(state)

\* reflection_node
reflection_node(state, credentials, script) ==
    IF credentials = "none" \/ ~Truthy(StateGet(state, "final_output", EmptyStr))
    THEN ReflectionNoKeyOrOutput(state)
    ELSE IF credentials = "key_only"
    THEN ReflectionSetupFailed(state)
    ELSE ReflectionLoop(state, script)

Reflector ==
    /\ pc = "reflector"
    /\ IF creds = "full" /\ Truthy(StateGet(st, "final_output", EmptyStr))
       THEN \E script \in Scripts(reflector_max_retries, ReflectorFinals) :
               NodeReturns("reflector", reflection_node(st, creds, script),
                           LastAttempt(script, 0, reflector_max_retries) + 1)
       ELSE NodeReturns("reflector", reflection_node(st, creds, <<>>), 0)
    /\ UNCHANGED <<cache, args, creds, store, plan>>

\* ------------------------------------------------------------------------
\* What the metrics read off an output text: the results of the substring,
\* regex, count and length tests of src/evaluation/metrics.py on the text
\* ------------------------------------------------------------------------
\* the empty string
NoFeatures ==
    [ length |-> 0, has_section |-> FALSE, references_found |-> 0,
      implicit_addressing |-> FALSE, has_file_path |-> FALSE,
      has_line_numbers |-> FALSE, has_code |-> FALSE,
      has_identifiers |-> FALSE, has_context_terms |-> FALSE,
      has_opening |-> FALSE, has_technical_section |-> FALSE,
      has_closing |-> FALSE, hashtag_count |-> 0, emoji_count |-> 0,
      tech_count |-> 0, has_numbers |-> FALSE,
      has_reflection_note |-> FALSE, evidence_count |-> 0,
      sections_found |-> 0, has_line_refs |-> FALSE,
      has_class_refs |-> FALSE, has_function_refs |-> FALSE,
      has_test_syntax |-> FALSE, has_test_files |-> FALSE,
      has_versions |-> FALSE, has_command_ref |-> FALSE, vague_count |-> 0,
      has_markdown |-> FALSE, has_lists |-> FALSE, has_structure |-> FALSE ]

RichFeatures ==
    [ length |-> 2269, has_section |-> TRUE, references_found |-> 6,
      implicit_addressing |-> TRUE, has_file_path |-> TRUE,
      has_line_numbers |-> TRUE, has_code |-> TRUE,
      has_identifiers |-> TRUE, has_context_terms |-> TRUE,
      has_opening |-> TRUE, has_technical_section |-> TRUE,
      has_closing |-> TRUE, hashtag_count |-> 9, emoji_count |-> 2,
      tech_count |-> 7, has_numbers |-> TRUE, has_reflection_note |-> TRUE,
      evidence_count |-> 15, sections_found |-> 5, has_line_refs |-> TRUE,
      has_class_refs |-> TRUE, has_function_refs |-> TRUE,
      has_test_syntax |-> TRUE, has_test_files |-> TRUE,
      has_versions |-> TRUE, has_command_ref |-> TRUE, vague_count |-> 0,
      has_markdown |-> TRUE, has_lists |-> TRUE, has_structure |-> TRUE ]

VagueFeatures ==
    [ length |-> 102, has_section |-> FALSE, references_found |-> 0,
      implicit_addressing |-> FALSE, has_file_path |-> FALSE,
      has_line_numbers |-> FALSE, has_code |-> FALSE,
      has_identifiers |-> FALSE, has_context_terms |-> FALSE,
      has_opening |-> FALSE, has_technical_section |-> FALSE,
      has_closing |-> FALSE, hashtag_count |-> 0, emoji_count |-> 0,
      tech_count |-> 0, has_numbers |-> FALSE,
      has_reflection_note |-> FALSE, evidence_count |-> 0,
      sections_found |-> 0, has_line_refs |-> FALSE,
      has_class_refs |-> FALSE, has_function_refs |-> FALSE,
      has_test_syntax |-> FALSE, has_test_files |-> FALSE,
      has_versions |-> FALSE, has_command_ref |-> FALSE, vague_count |-> 7,
      has_markdown |-> FALSE, has_lists |-> FALSE, has_structure |-> FALSE ]

ErrorFallbackFeatures ==
    [ length |-> 87, has_section |-> FALSE, references_found |-> 0,
      implicit_addressing |-> FALSE, has_file_path |-> FALSE,
      has_line_numbers |-> FALSE, has_code |-> FALSE,
      has_identifiers |-> TRUE, has_context_terms |-> FALSE,
      has_opening |-> FALSE, has_technical_section |-> FALSE,
      has_closing |-> FALSE, hashtag_count |-> 0, emoji_count |-> 0,
      tech_count |-> 0, has_numbers |-> FALSE,
      has_reflection_note |-> FALSE, evidence_count |-> 0,
      sections_found |-> 0, has_line_refs |-> FALSE,
      has_class_refs |-> FALSE, has_function_refs |-> FALSE,
      has_test_syntax |-> FALSE, has_test_files |-> FALSE,
      has_versions |-> FALSE, has_command_ref |-> FALSE, vague_count |-> 0,
      has_markdown |-> FALSE, has_lists |-> FALSE, has_structure |-> TRUE ]

TemplateFeatures ==
    [ length |-> 2611, has_section |-> FALSE, references_found |-> 1,
      implicit_addressing |-> FALSE, has_file_path |-> TRUE,
      has_line_numbers |-> TRUE, has_code |-> TRUE,
      has_identifiers |-> TRUE, has_context_terms |-> FALSE,
      has_opening |-> FALSE, has_technical_section |-> TRUE,
      has_closing |-> FALSE, hashtag_count |-> 21, emoji_count |-> 0,
      tech_count |-> 5, has_numbers |-> TRUE, has_reflection_note |-> TRUE,
      evidence_count |-> 0, sections_found |-> 4, has_line_refs |-> FALSE,
      has_class_refs |-> FALSE, has_function_refs |-> FALSE,
      has_test_syntax |-> FALSE, has_test_files |-> TRUE,
      has_versions |-> FALSE, has_command_ref |-> TRUE, vague_count |-> 0,
      has_markdown |-> TRUE, has_lists |-> TRUE, has_structure |-> TRUE ]

CredentialsFallbackFeatures ==
    [ length |-> 157, has_section |-> FALSE, references_found |-> 0,
      implicit_addressing |-> FALSE, has_file_path |-> FALSE,
      has_line_numbers |-> FALSE, has_code |-> FALSE,
      has_identifiers |-> TRUE, has_context_terms |-> FALSE,
      has_opening |-> FALSE, has_technical_section |-> FALSE,
      has_closing |-> FALSE, hashtag_count |-> 0, emoji_count |-> 0,
      tech_count |-> 2, has_numbers |-> FALSE,
      has_reflection_note |-> FALSE, evidence_count |-> 0,
      sections_found |-> 0, has_line_refs |-> FALSE,
      has_class_refs |-> FALSE, has_function_refs |-> FALSE,
      has_test_syntax |-> FALSE, has_test_files |-> FALSE,
      has_versions |-> FALSE, has_command_ref |-> FALSE, vague_count |-> 0,
      has_markdown |-> FALSE, has_lists |-> FALSE, has_structure |-> TRUE ]

\* len(task) for the tasks of the model
TaskLen(task) ==
    CASE task = "Where is the cache used?" -> 24
      [] task = "Write a LinkedIn post about this project" -> 40
      [] task = "Explain how embeddings capture meaning in text" -> 46
      [] task = "Which file computes 2+2?" -> 24

\* any(c.isdigit() for c in task)
TaskHasDigit(task) == task = "Which file computes 2+2?"

\* the task contains 'thank', 'check out', 'available' or 'repo'
TaskHasClosingWord(task) == FALSE

\* the features of an output text; CredentialsFallback embeds the task
Features(output, task) ==
    CASE output = RichText -> RichFeatures
      [] output = VagueText -> VagueFeatures
      [] output = ErrorFallback -> ErrorFallbackFeatures
      [] output = TemplateReport -> TemplateFeatures
      [] output = CredentialsFallback ->
            [CredentialsFallbackFeatures EXCEPT
                !.length = @ + TaskLen(task),
                !.has_numbers = TaskHasDigit(task),
                !.has_closing = TaskHasClosingWord(task)]
      [] OTHER -> NoFeatures

\* the features of state["final_output"]
OutputFeatures(state) == Features(state.final_output, state.task)

\* ------------------------------------------------------------------------
\* Metrics (src/evaluation/metrics.py); scores are whole numbers of points
\* ------------------------------------------------------------------------
calculate_task_completion_score(state) ==
    LET output_points == IF Truthy(state.final_output) THEN 50 ELSE 0
        complete_points == IF state.is_complete THEN 30 ELSE 0
        budget_points ==
            IF state.iteration_count < state.max_iterations THEN 20
            ELSE IF state.iteration_count = state.max_iterations THEN 10
            ELSE 0
    IN  Min(output_points + complete_points + budget_points, 100)

calculate_reasoning_quality_score(state) ==
    LET num_steps == ListLen(state.reasoning_steps)
        base == IF num_steps > 0 THEN 40 ELSE 0
        depth == IF num_steps >= 5 THEN 40
                 ELSE IF num_steps >= 3 THEN 30
                 ELSE IF num_steps >= 1 THEN 20
                 ELSE 0
        bonus == IF ListLen(state.reflection_notes) > 0 THEN 20 ELSE 0
    IN  Min(base + depth + bonus, 100)

calculate_tool_effectiveness_score(state) ==
    LET num_tools == ListLen(state.tool_usage)
        base == IF num_tools > 0 THEN 50 ELSE 0
        more == IF num_tools >= 3 THEN 30
                ELSE IF num_tools >= 2 THEN 20
                ELSE IF num_tools >= 1 THEN 10
                ELSE 0
        has_repo_data == state.repo_structure # None
        has_dependencies == state.dependencies # None
        results == IF has_repo_data /\ has_dependencies THEN 20
                   ELSE IF has_repo_data \/ has_dependencies THEN 10
                   ELSE 0
    IN  Min(base + more + results, 100)

\* _check_reflection_incorporated: (has_section, quality_score)
_check_reflection_incorporated(state) ==
    LET f == OutputFeatures(state)
    IN  IF ~f.has_section THEN [has_section |-> FALSE, score |-> 0]
        ELSE [has_section |-> TRUE,
              score |-> Min(15 + (IF f.references_found >= 3 THEN 15
                                   ELSE IF f.references_found >= 1 THEN 10
                                   ELSE 0), 30)]

\* state.get("final_output", "").lower() raises when final_output is None
ReflectionQualityRaises(state) == state.final_output = None

calculate_reflection_quality_score(state) ==
    LET num_notes == ListLen(state.reflection_notes)
        f == OutputFeatures(state)
        base == IF num_notes > 0 THEN 30 ELSE 0
        depth == IF num_notes >= 3 THEN 30
                 ELSE IF num_notes >= 2 THEN 20
                 ELSE IF num_notes >= 1 THEN 15
                 ELSE 0
        incorporated ==
            IF _check_reflection_incorporated(state).has_section THEN 40
            ELSE IF num_notes > 0 /\ f.implicit_addressing THEN 20
            ELSE 0
    IN  Min(base + depth + incorporated, 100)

\* _detect_output_type
_detect_output_type(state) ==
    IF MentionsPost(state.task) THEN "linkedin_post"
    ELSE IF IsCodeQuestion(state.task) THEN "code_question"
    ELSE IF state.task_type = "analyze_repo" THEN "repository_analysis"
    ELSE "general"

_evaluate_code_question_quality(state) ==
    LET f == OutputFeatures(state)
        specificity ==
            (IF f.has_file_path THEN 10 ELSE 0) + (IF f.has_line_numbers THEN 10 ELSE 0)
            + (IF f.has_code THEN 10 ELSE 0) + (IF f.has_identifiers THEN 10 ELSE 0)
        completeness ==
            IF f.length >= 500 THEN 15
            ELSE IF f.length >= 200 THEN 12
            ELSE IF f.length >= 100 THEN 8
            ELSE 0
        context == IF f.length >= 200 /\ f.has_context_terms THEN 15 ELSE 0
    IN  Min(specificity + completeness + context
            + _check_reflection_incorporated(state).score, 100)

_evaluate_linkedin_post_quality(state) ==
    LET f == OutputFeatures(state)
        structure ==
            (IF f.has_opening THEN 10 ELSE 0) + (IF f.has_technical_section THEN 10 ELSE 0)
            + (IF f.has_closing THEN 10 ELSE 0)
        hashtags == IF f.hashtag_count >= 5 THEN 10
                    ELSE IF f.hashtag_count >= 3 THEN 7
                    ELSE IF f.hashtag_count >= 1 THEN 4
                    ELSE 0
        emojis == IF f.emoji_count >= 2 THEN 10
                  ELSE IF f.emoji_count >= 1 THEN 5
                  ELSE 0
        tech == IF f.tech_count >= 4 THEN 20
                ELSE IF f.tech_count >= 2 THEN 15
                ELSE IF f.tech_count >= 1 THEN 10
                ELSE 0
        accuracy ==
            (IF f.has_numbers THEN 15 ELSE 0) + (IF f.has_reflection_note THEN 15 ELSE 0)
    IN  Min(structure + hashtags + emojis + tech + accuracy, 100)

\* _evaluate_repository_analysis_quality before the final clamp
RepositoryAnalysisPoints(state) ==
    LET f == OutputFeatures(state)
        evidence == IF f.evidence_count >= 15 THEN 30
                    ELSE IF f.evidence_count >= 10 THEN 25
                    ELSE IF f.evidence_count >= 5 THEN 15
                    ELSE IF f.evidence_count >= 1 THEN 5
                    ELSE -20
        sections == f.sections_found * 5
        symbols ==
            IF f.has_line_refs /\ (f.has_class_refs \/ f.has_function_refs) THEN 10
            ELSE IF f.has_class_refs /\ f.has_function_refs THEN 7
            ELSE IF f.has_class_refs \/ f.has_function_refs THEN 4
            ELSE 0
        tests == IF f.has_test_syntax /\ f.has_test_files THEN 10
                 ELSE IF f.has_test_files THEN 4
                 ELSE 0
        versions == IF f.has_versions THEN 5 ELSE 0
        commands == IF f.has_command_ref THEN 5 ELSE 0
        vague == IF f.vague_count >= 5 THEN -15
                 ELSE IF f.vague_count >= 3 THEN -10
                 ELSE IF f.vague_count >= 1 THEN -5
                 ELSE 0
        formatting ==
            (IF f.has_markdown THEN 7 ELSE 0) + (IF f.has_lists THEN 8 ELSE 0)
        reflection == Min(_check_reflection_incorporated(state).score, 10)
    IN  evidence + sections + symbols + tests + versions + commands + vague
        + formatting + reflection

\* variant: min(score, 100.0) alone
ClampScoreUnfloored(score) == Min(score, 100)

\* return max(0.0, min(score, 100.0))
ClampScore(score) == Max(0, Min(score, 100))

_evaluate_repository_analysis_quality(state) ==
    ClampScore(RepositoryAnalysisPoints(state))

_evaluate_general_quality(state) ==
    LET f == OutputFeatures(state)
        length_points == IF 100 <= f.length /\ f.length <= 2000 THEN 30
                         ELSE IF f.length >= 50 THEN 20
                         ELSE 0
        structure == IF f.has_structure THEN 20 ELSE 0
        reflection == IF _check_reflection_incorporated(state).has_section THEN 10 ELSE 0
    IN  IF ~Truthy(state.final_output) THEN 0
        ELSE Min(40 + length_points + structure + reflection, 100)

calculate_output_quality_score(state) ==
    IF ~Truthy(StateGet(state, "final_output", EmptyStr)) THEN 0
    ELSE LET output_type == _detect_output_type(state)
         IN  CASE output_type = "code_question" -> _evaluate_code_question_quality(state)
               [] output_type = "linkedin_post" -> _evaluate_linkedin_post_quality(state)
               [] output_type = "repository_analysis" ->
                      _evaluate_repository_analysis_quality(state)
               [] OTHER -> _evaluate_general_quality(state)

MetricNames == {"task_completion", "reasoning_quality", "tool_effectiveness",
                "reflection_quality", "output_quality"}

\* the weights of calculate_overall_score, in hundredths
weights ==
    [ task_completion    |-> 35,
      reasoning_quality  |-> 25,
      tool_effectiveness |-> 15,
      reflection_quality |-> 10,
      output_quality     |-> 15 ]

RECURSIVE SumOver(_, _)
\* the sum of term[m] over the metrics m of a set
SumOver(term, metrics) ==
    IF metrics = {} THEN 0
    ELSE LET m == CHOOSE x \in metrics : TRUE
         IN  term[m] + SumOver(term, metrics \ {m})

\* calculate_overall_score: weighted_sum / total_weight as the fraction
\* num / den (the weights in hundredths cancel out), 0 when no metric matched
calculate_overall_score(scores) ==
    LET matched == MetricNames \cap DOMAIN scores
        weighted_sum == SumOver([m \in matched |-> scores[m] * weights[m]], matched)
        total_weight == SumOver([m \in matched |-> weights[m]], matched)
    IN  IF total_weight = 0 THEN [num |-> 0, den |-> 1]
        ELSE [num |-> weighted_sum, den |-> total_weight]

\* AgentEvaluator.evaluate: a metric that raises is scored 0
evaluate(state) ==
    LET scores ==
          [ task_completion    |-> calculate_task_completion_score(state),
            reasoning_quality  |-> calculate_reasoning_quality_score(state),
            tool_effectiveness |-> calculate_tool_effectiveness_score(state),
            reflection_quality |-> IF ReflectionQualityRaises(state) THEN 0
                                   ELSE calculate_reflection_quality_score(state),
            output_quality     |-> calculate_output_quality_score(state) ]
    IN  [overall_score |-> calculate_overall_score(scores)] @@ scores

\* an evaluation_node that also marks the state complete
evaluation_node_marks_complete(state) ==
    [state EXCEPT !.evaluation_scores = evaluate(state), !.is_complete = TRUE]

\* evaluation_node
evaluation_node(state) == [state EXCEPT !.evaluation_scores = evaluate(state)]

Evaluator ==
    /\ pc = "evaluator"
    /\ NodeReturns("evaluator", evaluation_node(st), 0)
    /\ UNCHANGED <<cache, args, creds, store, plan>>

\* run_agent after graph.ainvoke returned: final_state is the graph state
Return ==
    /\ pc = "END"
    /\ result' = st
    /\ pc' = "returned"
    /\ UNCHANGED <<cache, args, creds, store, st, plan, calls, trace>>

Next ==
    \/ Planner
    \/ OtherRunStores
    \/ RepoAnalyzer
    \/ Retriever
    \/ Reasoner
    \/ Generator
    \/ Reflector
    \/ Evaluator
    \/ Return

Spec == Init /\ [][Next]_vars

\* ------------------------------------------------------------------------
\* The planner alone, on every kind of task
\* ------------------------------------------------------------------------
\* tasks that are trivial and name a code keyword, or are only trivial
PlannerTasks == Tasks \cup {"Which file computes 2+2?", "What is 2+2?"}

PlannerTaskTypes == TaskTypes \cup {"generate_content"}

PlannerPreviousRepoData == PreviousRepoData \cup {"structure_only"}

PlannerInit ==
    /\ args \in [task : PlannerTasks, task_type : PlannerTaskTypes,
                 max_iterations : 0..MaxIterationsArg,
                 previous_repo_data : PlannerPreviousRepoData]
    /\ creds \in Credentials
    /\ cache = InitialCache
    /\ store = "not_queried"
    /\ pc = "planner"
    /\ st = InitialState(args)
    /\ plan = [skip_reasoning |-> FALSE, skip_reflection |-> FALSE]
    /\ calls = 0
    /\ trace = <<>>
    /\ result = NoneDict

PlannerSpec == PlannerInit /\ [][Planner]_vars

\* ------------------------------------------------------------------------
\* PersistentCache: get and set on one repository root, while source files
\* are touched and time passes
\* ------------------------------------------------------------------------
\* the variables of a run, which the cache operations leave alone
runvars == <<args, creds, store, pc, st, plan, calls, trace, result>>

\* an operation took place: a second has passed
Elapsed(c) == [c EXCEPT !.now = @ + 1, !.ops = @ + 1]

CacheSet ==
    /\ cache.ops < MaxCacheOps
    /\ \E data \in Bundles, outcome \in SetOutcomes :
          cache' = [Elapsed(cache_set(cache, Root, data, outcome)) EXCEPT
                        !.stored = CASE outcome = "written" ->
                                           [bundle |-> data, at |-> cache.now,
                                            mtimes |-> cache.mtimes[Root]]
                                     [] outcome = "open_fails" -> @
                                     [] outcome = "dump_fails" -> NoSet]
    /\ UNCHANGED runvars

CacheGet ==
    /\ cache.ops < MaxCacheOps
    /\ cache' = Elapsed(cache_get(cache, Root))
    /\ UNCHANGED runvars

\* the files a step touches: the last sampled file and the first one past
\* the sample
Touchable == {Min(sample_limit, MaxPyFiles), MaxPyFiles}

\* a source file is touched: its modification time becomes the present
Touch ==
    /\ cache.ops < MaxCacheOps
    /\ \E f \in Touchable :
          cache' = Elapsed([cache EXCEPT !.mtimes[Root][f] = cache.now, !.log = "touch"])
    /\ UNCHANGED runvars

\* time passes: up to the TTL, or a second more
Wait ==
    /\ cache.ops < MaxCacheOps
    /\ \E d \in {ttl - 1, ttl} :
          cache' = [cache EXCEPT !.now = @ + d, !.ops = @ + 1, !.log = "wait"]
    /\ UNCHANGED runvars

CacheInit ==
    /\ cache = InitialCache
    /\ args = [task |-> "Where is the cache used?", task_type |-> "analyze_repo",
               max_iterations |-> 0, previous_repo_data |-> "absent"]
    /\ creds = "none"
    /\ store = "not_queried"
    /\ pc = "planner"
    /\ st = InitialState(args)
    /\ plan = [skip_reasoning |-> FALSE, skip_reflection |-> FALSE]
    /\ calls = 0
    /\ trace = <<>>
    /\ result = NoneDict

CacheNext ==
    \/ CacheSet
    \/ CacheGet
    \/ Touch
    \/ Wait

CacheSpec == CacheInit /\ [][CacheNext]_vars

\* ------------------------------------------------------------------------
\* PersistentCache shared by two repositories, with clear
\* ------------------------------------------------------------------------
\* set(OtherRoot, data) that succeeds
OtherSet ==
    /\ cache.ops < MaxCacheOps
    /\ \E data \in Bundles :
          cache' = Elapsed(cache_set(cache, OtherRoot, data, "written"))
    /\ UNCHANGED runvars

\* get(OtherRoot)
OtherGet ==
    /\ cache.ops < MaxCacheOps
    /\ cache' = Elapsed(cache_get(cache, OtherRoot))
    /\ UNCHANGED runvars

\* clear(repo_path) and clear()
CacheClear ==
    /\ cache.ops < MaxCacheOps
    /\ \E repo_path \in Roots \cup {None} :
          cache' = [Elapsed(cache_clear(cache, repo_path)) EXCEPT
                        !.stored = IF repo_path = OtherRoot THEN @ ELSE NoSet]
    /\ UNCHANGED runvars

CacheFrameNext ==
    \/ CacheSet
    \/ CacheGet
    \/ Touch
    \/ Wait
    \/ OtherSet
    \/ OtherGet
    \/ CacheClear

CacheFrameSpec == CacheInit /\ [][CacheFrameNext]_vars

\* ------------------------------------------------------------------------
\* PersistentCache used by two runs at once: a set is open(cache_file, 'wb')
\* followed by pickle.dump and close, and the other run's operations can
\* take place in between
\* ------------------------------------------------------------------------
\* set, first half: open(cache_file, 'wb') creates the file or truncates it
SetOpen(run) ==
    /\ cache.ops < MaxCacheOps
    /\ ~cache.handles[run].open
    /\ \E data \in Bundles :
          LET key == _get_cache_key(cache, Root)
          IN  cache' = Elapsed([cache EXCEPT
                  !.disk = (@ \ CacheFile(cache, key)) \cup
                               {[key |-> key, mtime |-> cache.now, payload |-> Truncated]},
                  !.handles[run] = [open |-> TRUE, key |-> key, data |-> data, orphan |-> FALSE],
                  !.arg = Root, !.log = "set_open"])
    /\ UNCHANGED runvars

\* set, second half: pickle.dump(data, f) and close; the bytes go to the
\* file the handle was opened on, which a get may have unlinked meanwhile
SetDump(run) ==
    /\ cache.ops < MaxCacheOps
    /\ cache.handles[run].open
    /\ LET h == cache.handles[run]
       IN  cache' = Elapsed([cache EXCEPT
               !.disk = IF h.orphan THEN @
                        ELSE (@ \ CacheFile(cache, h.key)) \cup
                                 {[key |-> h.key, mtime |-> cache.now,
                                   payload |-> pickle_dump(h.data)]},
               !.handles[run] = NoHandle,
               !.stored = [bundle |-> h.data, at |-> cache.now, mtimes |-> cache.mtimes[Root]],
               !.arg = Root, !.ret = "True", !.log = "set_written"])
    /\ UNCHANGED runvars

\* get by a run that is not inside a set; a file it unlinks stays open in
\* the runs that are writing it
OverlappingGet(run) ==
    /\ cache.ops < MaxCacheOps
    /\ ~cache.handles[run].open
    /\ LET c == cache_get(cache, Root)
       IN  cache' = Elapsed([c EXCEPT
               !.handles = [r \in Runs |->
                               IF cache.handles[r].open /\ CacheFile(c, cache.handles[r].key) = {}
                               THEN [cache.handles[r] EXCEPT !.orphan = TRUE]
                               ELSE cache.handles[r]]])
    /\ UNCHANGED runvars

ConcurrentCacheNext ==
    \E run \in Runs :
        \/ SetOpen(run)
        \/ SetDump(run)
        \/ OverlappingGet(run)

ConcurrentCacheSpec == CacheInit /\ [][ConcurrentCacheNext]_vars

\* ------------------------------------------------------------------------
\* Properties of a run
\* ------------------------------------------------------------------------
RECURSIVE Count(_, _)
\* how many times stage x occurs in a trace
Count(seq, x) ==
    IF seq = <<>> THEN 0
    ELSE (IF seq[Len(seq)] = x THEN 1 ELSE 0) + Count(SubSeq(seq, 1, Len(seq) - 1), x)

\* the stage that ran last
TraceLast == IF trace = <<>> THEN "none" ELSE trace[Len(trace)]

\* run_agent has returned
Returned == pc = "returned"

\* run_agent has returned through its except branch
StageRaised == Returned /\ result.final_output = ErrorApology

\* run_agent has returned what graph.ainvoke returned
ReturnedNormally == Returned /\ ~StageRaised

ScoreKeys == MetricNames \cup {"overall_score"}

\* a score dict holding the five sub-scores and overall_score, each in [0,100]
ScoresInRange(scores) ==
    /\ DOMAIN scores = ScoreKeys
    /\ \A m \in MetricNames : scores[m] \in 0..100
    /\ scores.overall_score.den > 0
    /\ scores.overall_score.num >= 0
    /\ scores.overall_score.num <= 100 * scores.overall_score.den

\* C1: every state returned by run_agent, on the normal path and on the
\* exception path, has non-null evaluation_scores holding the five sub-scores
\* and overall_score, each of them in [0,100]
C1_ScoresInRange == Returned => ScoresInRange(result.evaluation_scores)

\* a normal return of a repository analysis whose raw output-quality points
\* are negative and are clamped to 0
C1_Witness ==
    /\ ReturnedNormally
    /\ result.final_output = VagueText
    /\ _detect_output_type(result) = "repository_analysis"
    /\ result.evaluation_scores.output_quality = 0
    /\ result.evaluation_scores.task_completion > 0

\* the longest run: three generations of at most five stages, the evaluator
MaxStages == 5 * max_generations + 1

\* the nodes of the graph
Stages == {"planner", "repo_analyzer", "retriever", "reasoner", "generator",
           "reflector", "evaluator"}

C3_GenerationCeiling ==
    /\ Count(trace, "generator") <= max_generations
    /\ st.generation_count <= max_generations
    /\ Returned => result.generation_count <= max_generations

\* a run that reached the ceiling through one continue and one retry
C3_Witness ==
    /\ Returned
    /\ result.generation_count = max_generations
    /\ Count(trace, "planner") >= 2
    /\ \E i \in 1..(Len(trace) - 1) : trace[i] = "reflector" /\ trace[i + 1] = "generator"

\* C4 (as the specification states it): at return from every run
\* iteration_count <= max_iterations
C4_IterationWithinMax ==
    ReturnedNormally => result.iteration_count <= result.max_iterations

\* C5: when a stage raises, run_agent returns a state whose final_output is a
\* non-empty failure description, whose is_complete is false and whose
\* evaluation_scores holds the five sub-scores and overall_score, all 0
C5_DegradedState ==
    (Returned /\ TraceLast # "evaluator") =>
        /\ result.final_output = ErrorApology
        /\ Truthy(result.final_output)
        /\ result.is_complete = FALSE
        /\ DOMAIN result.evaluation_scores = ScoreKeys
        /\ \A m \in MetricNames : result.evaluation_scores[m] = 0
        /\ result.evaluation_scores.overall_score.num = 0

\* the generator raised after it had called the backend
C5_Witness ==
    /\ Returned
    /\ TraceLast = "generator"
    /\ calls > 0
    /\ result.final_output = ErrorApology

\* C6: on every run in which no stage raises, the evaluator executes exactly
\* once and is the last stage before completion, the zero-work path included
C6_EvaluatorOnceAndLast ==
    /\ Count(trace, "evaluator") <= 1
    /\ Count(trace, "evaluator") = 1 => TraceLast = "evaluator"
    /\ (pc = "END" \/ ReturnedNormally) => Count(trace, "evaluator") = 1

\* the zero-work path: planner, then evaluator, then return
C6_Witness ==
    /\ ReturnedNormally
    /\ trace = <<"planner", "evaluator">>
    /\ result.generation_count = 0

\* the next_action the verdict mapping gives below the ceiling
MappedAction(assessment, can_improve) ==
    CASE assessment = "good" -> "end"
      [] assessment = "needs_improvement" /\ can_improve -> "retry"
      [] assessment = "needs_more_data" /\ ~can_improve -> "continue"
      [] OTHER -> "end"

\* the reflector, about to call the backend
ReflectorCallsBackend ==
    pc = "reflector" /\ creds = "full" /\ Truthy(StateGet(st, "final_output", EmptyStr))

\* C7: the verdict mapping is total and single-valued: whatever the backend
\* answers, next_action is one of end, retry, continue; below the ceiling
\* good gives end, needs_improvement with can_improve_without_data true gives
\* retry, needs_more_data with can_improve_without_data false gives continue,
\* every other combination, every unknown assessment and every unparseable
\* response gives end
C7_VerdictMapping ==
    ReflectorCallsBackend =>
        \A script \in Scripts(reflector_max_retries, ReflectorFinals) :
            LET answer == script[LastAttempt(script, 0, reflector_max_retries) + 1]
                parsed == answer.kind = "content" /\ answer.content.parse = "dict"
                ret == reflection_node(st, creds, script)
            IN  /\ ret.next_action \in {"end", "retry", "continue"}
                /\ route_after_reflection(ret) = ret.next_action
                /\ (~parsed /\ st.generation_count < max_generations) =>
                        ret.next_action = "end"
                /\ ( /\ parsed
                     /\ st.generation_count < max_generations
                     /\ {"assessment", "can_improve_without_data"}
                            \subseteq DOMAIN answer.content.dict ) =>
                        ret.next_action =
                            MappedAction(answer.content.dict.assessment,
                                         answer.content.dict.can_improve_without_data)

\* the reflector answered a parsed critique with "continue"
C7_Witness ==
    /\ TraceLast = "reflector"
    /\ calls > 0
    /\ st.next_action = "continue"
    /\ st.reflection_assessment = "needs_more_data"
    /\ pc = "planner"

\* C8 (as the specification states it, for a run with maxGenerations = 1):
\* once generation_count >= 1 the reflector's result is assessment good and
\* next_action end, and the run performs exactly one generation
C8_CeilingOfOne ==
    /\ (TraceLast = "reflector" /\ st.generation_count >= 1) =>
            st.reflection_assessment = "good" /\ st.next_action = "end"
    /\ Count(trace, "generator") <= 1

\* C9 (as the specification states it): when the planner returned
\* skip_reflection = true, the reflector makes no backend call, appends
\* exactly one reflection note and resolves next_action to end
C9_SkipReflection ==
    [][(Reflector /\ plan.skip_reflection) =>
            /\ calls' = 0
            /\ ListLen(st'.reflection_notes) = ListLen(st.reflection_notes) + 1
            /\ st'.next_action = "end"]_vars

\* C10 (as the specification states it): every reflector invocation extends
\* reflection_notes, as held in the graph state, by exactly one entry, tagged
\* with the generation_count current at the invocation
C10_OneTaggedNote ==
    [][Reflector =>
            /\ ListLen(st'.reflection_notes) = ListLen(st.reflection_notes) + 1
            /\ ListLast(st'.reflection_notes).gen = st.generation_count]_vars

\* C11 (as the specification states it): every planner invocation increases
\* iteration_count by one and the reasoning_steps held in the graph state
\* gain exactly one entry, the description of the decision, and nothing else
C11_OnePlanningEntry ==
    [][Planner =>
            /\ st'.iteration_count = st.iteration_count + 1
            /\ Expand(st'.reasoning_steps) =
                  Append(Expand(st.reasoning_steps),
                         Entry("Planning: " \o PlannerDecision(st).plan_note, NoTag))]_vars

\* the row of a decision table that applies: the first whose condition holds
FirstMatch(rows) ==
    rows[CHOOSE i \in 1..Len(rows) : rows[i].when /\ \A j \in 1..(i - 1) : ~rows[j].when].row

\* evidence is present: repo_structure or code_files is non-empty
HasEvidence(state) == Truthy(state.repo_structure) \/ Truthy(state.code_files)

\* the decision table as the specification orders it: the trivial row before
\* the code-keyword row; a row is <<next_action, skip_reasoning, skip_reflection>>
SpecifiedTable(state) ==
    << [when |-> state.task_type = "analyze_repo", row |-> <<"analyze", FALSE, FALSE>>],
       [when |-> state.task_type = "answer_question", row |-> <<"retrieve", FALSE, TRUE>>],
       [when |-> state.task_type = "generate_content" /\ HasEvidence(state),
        row |-> <<"reason", FALSE, TRUE>>],
       [when |-> state.task_type = "generate_content", row |-> <<"analyze", FALSE, TRUE>>],
       [when |-> IsTrivial(state.task), row |-> <<"reason", TRUE, TRUE>>],
       [when |-> HasCodeKeyword(state.task) /\ ~HasEvidence(state),
        row |-> <<"analyze", FALSE, TRUE>>],
       [when |-> TRUE, row |-> <<"reason", FALSE, TRUE>>] >>

\* the same table with the code-keyword row before the trivial row
KeywordFirstTable(state) ==
    << [when |-> state.task_type = "analyze_repo", row |-> <<"analyze", FALSE, FALSE>>],
       [when |-> state.task_type = "answer_question", row |-> <<"retrieve", FALSE, TRUE>>],
       [when |-> state.task_type = "generate_content" /\ HasEvidence(state),
        row |-> <<"reason", FALSE, TRUE>>],
       [when |-> state.task_type = "generate_content", row |-> <<"analyze", FALSE, TRUE>>],
       [when |-> HasCodeKeyword(state.task) /\ ~HasEvidence(state),
        row |-> <<"analyze", FALSE, TRUE>>],
       [when |-> IsTrivial(state.task), row |-> <<"reason", TRUE, TRUE>>],
       [when |-> TRUE, row |-> <<"reason", FALSE, TRUE>>] >>

\* C12 (as the specification states it): the planner's result is the first
\* matching row of the decision table with the trivial row tried before the
\* code-keyword row, so a trivial task that names a code keyword, with no
\* evidence, gets the trivial row
C12_SpecifiedTable ==
    [][Planner =>
          <<st'.next_action, plan'.skip_reasoning, plan'.skip_reflection>> =
              FirstMatch(SpecifiedTable(st))]_vars

\* C12 (amended): the planner's result is the first matching row of the
\* decision table with the code-keyword row (no evidence) tried before the
\* trivial row, so a trivial task that names a code keyword, with no
\* evidence, gets the code-keyword row (analyze, false, true)
C12_KeywordFirstTable ==
    [][Planner =>
          <<st'.next_action, plan'.skip_reasoning, plan'.skip_reflection>> =
              FirstMatch(KeywordFirstTable(st))]_vars

\* the planner has decided on a trivial task that names a code keyword, with
\* no evidence, and sent the run to the repo analyzer
C12_Witness ==
    /\ trace = <<"planner">>
    /\ st.task = "Which file computes 2+2?"
    /\ st.task_type = "general"
    /\ ~HasEvidence(st)
    /\ st.next_action = "analyze"
    /\ ~plan.skip_reasoning
    /\ plan.skip_reflection
    /\ pc = "repo_analyzer"

\* the stages that may follow a stage, and the stages that may precede it
StageOrder(before, after) ==
    /\ before = "planner" => after \in {"repo_analyzer", "retriever", "reasoner", "evaluator"}
    /\ before \in {"repo_analyzer", "retriever"} => after = "reasoner"
    /\ before = "reasoner" => after = "generator"
    /\ before = "generator" => after = "reflector"
    /\ before = "reflector" => after \in {"planner", "generator", "evaluator"}
    /\ after = "reasoner" => before \in {"planner", "repo_analyzer", "retriever"}
    /\ after = "generator" => before \in {"reasoner", "reflector"}
    /\ after = "reflector" => before = "generator"

GeneratorOutputs ==
    {RichText, VagueText, EmptyStr, CredentialsFallback, ErrorFallback, TemplateReport}

GeneratorFailure(script) ==
    LET answer == script[LastAttempt(script, 0, generator_max_retries) + 1]
    IN  \/ answer.kind # "content"
        \/ answer.content \in {EmptyStr, None}

\* C15 (as the specification states it): the generator calls the backend at
\* most 3 times per invocation; after rate limits to the last attempt, a
\* connection failure or an empty response it produces its fallback output;
\* the stage completes with a final_output text and the run proceeds to the
\* reflector
C15_GeneratorFailures ==
    [][(Generator /\ creds = "full") =>
            /\ calls' <= generator_max_retries
            /\ pc' = "reflector"
            /\ Truthy(st'.final_output)
            /\ \A script \in Scripts(generator_max_retries, GeneratorFinals) :
                  GeneratorFailure(script) =>
                      _generate_with_llm(st, TRUE, script) \in {ErrorFallback, TemplateReport}]_vars

\* the outcomes of the store in which nothing is retrieved
RetrievalFailures == {"empty_store", "no_chunks", "store_error"}

C17_ReasonerAddsSteps ==
    pc = "reasoner" =>
        /\ creds = "none" =>
              LET ret == reasoning_node(st, FALSE, <<>>)
              IN  /\ ret.next_action = "generate"
                  /\ ret.reasoning_steps = st.reasoning_steps \o FallbackSteps
        /\ creds = "full" =>
              \A script \in Scripts(reasoner_max_retries, ReasonerFinals) :
                  LET ret == reasoning_node(st, TRUE, script)
                  IN  /\ ret.next_action = "generate"
                      /\ Len(ret.reasoning_steps) >= Len(st.reasoning_steps) + 1

\* ------------------------------------------------------------------------
\* Properties of the disk cache
\* ------------------------------------------------------------------------
\* a set has written a bundle and no set has failed on its file since
HasStored == cache.stored # NoSet

\* no sampled source file has changed its modification time since that set
SampledUnchanged ==
    \A f \in Sampled : cache.mtimes[Root][f] = cache.stored.mtimes[f]

\* C18: cache round trip: after a successful set(root, bundle), a get(root)
\* made within the TTL while no sampled source file has changed its
\* modification time returns a bundle equal to the one stored
C18_RoundTrip ==
    [][(CacheGet /\ HasStored /\ SampledUnchanged
                /\ cache.now - cache.stored.at <= ttl) =>
            cache'.ret = cache.stored.bundle]_vars

\* a get returned the stored bundle exactly one TTL after the set
C18_Witness ==
    /\ cache.log = "get_hit"
    /\ HasStored
    /\ cache.ret = cache.stored.bundle
    /\ cache.now - 1 - cache.stored.at = ttl

\* C19: after set(root, bundle), once any one of the sampled source files
\* has been touched the next get(root) returns absent
C19_TouchInvalidates ==
    [][(CacheGet /\ HasStored /\ ~SampledUnchanged) => cache'.ret = None]_vars

\* a bundle was stored, the last sampled file was touched, and a get within
\* the TTL missed
C19_Witness ==
    /\ cache.log = "get_miss"
    /\ HasStored
    /\ cache.mtimes[Root][Min(sample_limit, MaxPyFiles)] > cache.stored.at
    /\ cache.now - cache.stored.at <= ttl
    /\ cache.ret = None

\* C20: on get, an entry older than the TTL, and an entry whose payload
\* cannot be read, is deleted and reported absent; get returns, and a
\* following get for the same key finds no entry
C20_ExpiredOrCorruptDeleted ==
    [][(/\ CacheGet
        /\ \E e \in CacheFile(cache, _get_cache_key(cache, Root)) :
               CacheExpired(cache, e) \/ ~Loadable(e.payload)) =>
            /\ cache'.ret = None
            /\ cache'.log \in {"get_expired", "get_corrupt"}
            /\ CacheFile(cache', _get_cache_key(cache', Root)) = {}
            /\ cache_get(cache', Root).log = "get_miss"]_vars

\* a get has deleted an entry that had outlived the TTL by a second
C20_Witness ==
    /\ cache.log = "get_expired"
    /\ cache.ret = None
    /\ cache.disk = {}
    /\ cache.ops >= 3

\* a get has deleted an entry left behind by a set that failed part-way
C20_WitnessCorrupt ==
    /\ cache.log = "get_corrupt"
    /\ cache.ret = None
    /\ cache.disk = {}

\* a source file outside the sample has changed its modification time
\* since the last successful set
UnsampledChanged ==
    \E f \in (1..MaxPyFiles) \ Sampled : cache.mtimes[Root][f] # cache.stored.mtimes[f]

\* C28: the key samples the first 100 source files only: a step that changes
\* the modification time of a file outside the sample leaves the key as it
\* is, and after set(root, bundle) and such a change get(root), within the
\* TTL, still returns the stored bundle
C28_UnsampledIgnored ==
    [][/\ (\A f \in Sampled : cache'.mtimes[Root][f] = cache.mtimes[Root][f]) =>
              _get_cache_key(cache', Root) = _get_cache_key(cache, Root)
       /\ (CacheGet /\ HasStored /\ SampledUnchanged /\ UnsampledChanged
                    /\ cache.now - cache.stored.at <= ttl) =>
              /\ cache'.ret = cache.stored.bundle
              /\ cache'.log = "get_hit"]_vars

\* a bundle was stored, the file past the sample was touched, and a get
\* returned the stored bundle
C28_Witness ==
    /\ cache.log = "get_hit"
    /\ HasStored
    /\ cache.mtimes[Root][MaxPyFiles] > cache.stored.at
    /\ MaxPyFiles \notin Sampled
    /\ cache.ret = cache.stored.bundle

\* the last operation was a get / a set
IsGet(c) == c.log \in {"get_miss", "get_hit", "get_expired", "get_corrupt"}
IsSet(c) == c.log \in {"set_written", "set_failed"}

\* the step leaves every cache file but the one named by repo_path's
\* current key as it is, and creates no other file
OnlyCurrentFile(repo_path) ==
    LET key == _get_cache_key(cache, repo_path)
    IN  /\ \A e \in cache.disk : e.key # key => e \in cache'.disk
        /\ \A e \in cache'.disk : e.key # key => e \in cache.disk

\* the entries no repository's current key names: those stored under
\* earlier modification times
EarlierEntries(c) == {e \in c.disk : e.key # _get_cache_key(c, e.key[1])}

\* C30: get(root) and set(root, bundle) touch only the cache file named by
\* root's current key; get deletes at most that one file; entries under
\* earlier keys of the root or under other roots are left unchanged by get
\* and set; among the operations only clear() with no argument removes an
\* entry stored under an earlier key
C30_OnlyCurrentFile ==
    [][cache'.ops = cache.ops + 1 =>
          /\ (IsGet(cache') \/ IsSet(cache')) => OnlyCurrentFile(cache'.arg)
          /\ IsGet(cache') =>
                 /\ cache'.disk \subseteq cache.disk
                 /\ Cardinality(cache.disk \ cache'.disk) <= 1
          /\ (EarlierEntries(cache) \ cache'.disk # {}) => cache'.log = "clear_all"]_vars

\* a get for Root missed while the directory held an entry under an earlier
\* key of Root and an entry of the other repository
C30_Witness ==
    /\ cache.log = "get_miss"
    /\ \E e \in EarlierEntries(cache) : e.key[1] = Root
    /\ \E e \in cache.disk : e.key[1] = OtherRoot

\* no set is in progress
Quiescent(c) == \A run \in Runs : ~c.handles[run].open

\* C21 (as the specification states it): runs use the same key without
\* locking: a get that overlaps a set finds no entry or a complete bundle,
\* never a partial payload, and once every overlapping set and get has
\* finished the entry exists and holds the last writer's complete bundle
C21_AtomicReplace ==
    [][cache'.ops = cache.ops + 1 =>
          /\ IsGet(cache') => cache'.log # "get_corrupt"
          /\ (Quiescent(cache') /\ cache'.stored # NoSet) =>
                 \E e \in CacheFile(cache', _get_cache_key(cache', Root)) :
                     /\ Loadable(e.payload)
                     /\ pickle_load(e.payload) = cache'.stored.bundle]_vars


\* the sub-scores evaluate could produce for a state: a metric whose function
\* raises produces none
Produced(state) ==
    MetricNames \ (IF ReflectionQualityRaises(state) THEN {"reflection_quality"} ELSE {})

\* C24: the overall score the Evaluator stores is the weighted sum over the
\* sub-scores that could be produced divided by the sum of their weights (0
\* when there is none): a sub-score that could not be produced is left out of
\* both sums and does not pull the overall score toward zero.
C24_PresentOnly ==
    [][(pc = "evaluator" /\ pc' = "END") =>
          LET scores == st'.evaluation_scores
              present == Produced(st)
              weighted_sum == SumOver([m \in present |-> scores[m] * weights[m]], present)
              total_weight == SumOver([m \in present |-> weights[m]], present)
          IN  IF total_weight = 0 THEN scores.overall_score.num = 0
              ELSE scores.overall_score.num * total_weight
                      = weighted_sum * scores.overall_score.den]_vars


DefaultSettings ==
    /\ args.max_iterations = 1
    /\ args.previous_repo_data = "absent"

\* C25: for every task and task type, run_agent with default settings returns
\* a state with is_complete true and a final_output that is neither None nor
\* empty.
C25_AlwaysCompletes ==
    (pc = "returned" /\ DefaultSettings) =>
        /\ result.is_complete = TRUE
        /\ result.final_output \notin {None, EmptyStr}

\* C26: a run started with run_agent's default settings returns with
\* iteration_count strictly less than max_iterations.
C26_FewerIterationsThanBudget ==
    (pc = "returned" /\ DefaultSettings) =>
        result.iteration_count < result.max_iterations


\* C27: reasoning_steps, reflection_notes and tool_usage are append-only over
\* a whole run: at every step each list's previous value is a prefix of its
\* new value, and the lists of the state run_agent returns contain every entry
\* the stages have added to the state of the run.
C27_AppendOnly ==
    [][/\ \A key \in ReducerKeys : IsPrefix(Expand(st[key]), Expand(st'[key]))
       /\ pc' = "returned" =>
             \A key \in ReducerKeys : IsPrefix(Expand(st'[key]), Expand(result'[key]))]_vars


\* the step is a pass through repo_analyzer_node
AnalyzerPass == pc = "repo_analyzer" /\ trace' # trace

\* a fresh collection: no evidence in the state and a disk-cache miss
FreshCollection ==
    /\ AnalyzerPass
    /\ ~has_session_cache(st)
    /\ cache_get(cache, Root).log # "get_hit"

\* the state holds the six evidence fields and cache.set was called for the
\* repository with exactly those six fields; when the file was written, it
\* is the file of the repository's current key and loads as that bundle
BundleHanded(state, c) ==
    /\ \A field \in EvidenceFields : Truthy(state[field])
    /\ c.arg = Root
    /\ c.log \in {"set_written", "set_failed"}
    /\ c.log = "set_written" =>
          \E e \in CacheFile(c, _get_cache_key(c, Root)) :
              /\ Loadable(e.payload)
              /\ pickle_load(e.payload) = cache_data(state)

C29_SessionPassChangesNothing ==
    [][(AnalyzerPass /\ has_session_cache(st)) =>
          /\ pc' # "returned"
          /\ \A field \in EvidenceFields : st'[field] = st[field]
          /\ st'.reasoning_steps = st.reasoning_steps
          /\ st'.tool_usage = st.tool_usage
          /\ cache' = cache]_vars

====
